---- MODULE Spec2Model ----
(***************************************************************************)
(* Model of the ward safety predictor: SafetyPredictor (src/predictor.py), *)
(* the ward store DataProcessor (src/data_processor.py) and the Flask      *)
(* handlers that call them (src/app.py).                                   *)
(*                                                                         *)
(* Numbers.  Scores are fixed-point integers, ONE = 10^7 units per 1.0.    *)
(* A crime_probability (the result of round(x, 3)) is an integer number of *)
(* thousandths.  Percentages (round(x, 1)) are integer tenths of a percent.*)
(* Strings that the code hashes are sequences of symbol codes; every       *)
(* other string is a TLA+ string.  Dates are day ordinals, ordinal 0 being *)
(* Monday 2024-01-01.                                                      *)
(***************************************************************************)
EXTENDS Integers, Sequences, FiniteSets, TLC

VARIABLES
    hashseed,          \* the process's string-hash key (PYTHONHASHSEED randomisation)
    wardFile,          \* static/data/mumbai_wards.geojson as found on disk
    today,             \* datetime.now() at construction, as a day ordinal
    wards,             \* self.wards["features"]
    model,             \* self.model
    ensemble,          \* self.rf_model and self.gb_model: 0 when None, else the fitted pair
    historical_data,   \* self.historical_data
    rng,               \* state of the module-global random generator
    run,               \* how many times the process has been restarted
    resp,              \* what the last call returned (or raised)
    first,             \* the first answer predict ever gave, with its hour and run
    store,             \* DataProcessor.wards["features"]
    search,            \* the q of the search in progress, the queries handed to
                       \* geolocator.geocode and what it did
    threads            \* the requests being served in threads of their own

vars == <<hashseed, wardFile, today, wards, model, ensemble,
          historical_data, rng, run, resp, first, store, search, threads>>

(***************************************************************************)
(* Bounds of the model                                                     *)
(***************************************************************************)
MaxSeed == 2          \* hash keys 0 .. MaxSeed-1
MaxRngInit == 1       \* initial generator states 0 .. MaxRngInit-1
MaxTodayOffset == 0   \* construction days Today0 .. Today0+MaxTodayOffset
MaxSmallDays == 2     \* `days` inputs -1 .. MaxSmallDays, and around HistDays
MaxFutureHours == 2   \* `hours` inputs -1 .. MaxFutureHours
MaxRuns == 1          \* restarts of the process
MaxEnsemble == 1      \* fitted model pairs 1 .. MaxEnsemble
MaxGeo == 1           \* choices 0 .. MaxGeo-1 of the draws that place the store's wards

(***************************************************************************)
(* Program constants                                                       *)
(***************************************************************************)
ONE == 10 ^ 7
MinHour == 0
MaxHour == 23
GreenMin == 7000000
YellowMin == 4000000
ModifierMod == 20
NumPlaceholder == 24
HistDays == 30
MaxDays == 30
DefaultHour == 12
DefaultDays == 7
DefaultFutureHours == 24

\* the earliest construction day: the series then starts at ordinal 0
Today0 == HistDays

Hours == MinHour .. MaxHour
CallHours == (MinHour - 1) .. (MaxHour + 1)
Levels == {"green", "yellow", "red"}

Min(a, b) == IF a <= b THEN a ELSE b
Max(a, b) == IF a >= b THEN a ELSE b
Abs(a) == IF a < 0 THEN -a ELSE a

(***************************************************************************)
(* Text formatting                                                         *)
(***************************************************************************)
Digit == <<"0", "1", "2", "3", "4", "5", "6", "7", "8", "9">>

\* str(n) for 0 <= n < 100
Str(n) == IF n < 10 THEN Digit[n + 1]
          ELSE Digit[(n \div 10) + 1] \o Digit[(n % 10) + 1]

\* f"{n:02d}"
Fmt02d(n) == IF n < 0 THEN "-" \o Str(-n)
             ELSE IF n < 10 THEN "0" \o Digit[n + 1]
             ELSE Str(n)

(***************************************************************************)
(* The ward collection                                                     *)
(***************************************************************************)
\* the i-th placeholder ward, i in 1..24
PlaceholderWard(i) ==
    [ward_id |-> "W" \o Fmt02d(i), name |-> "Ward " \o Str(i), coords |-> <<>>]

\* the boundary files the model starts from: none, one without features,
\* one with two wards (the second without boundary vertices)
FileFeatures ==
    << [ward_id |-> "W1", name |-> "Ward A",
        coords |-> << <<728750, 190750>>, <<728850, 190750>>, <<728850, 190850>>,
                      <<728750, 190850>>, <<728750, 190750>> >>],
       [ward_id |-> "W2", name |-> "Ward B", coords |-> <<>>] >>

WardFiles ==
    { [exists |-> FALSE, features |-> <<>>],
      [exists |-> TRUE, features |-> <<>>],
      [exists |-> TRUE, features |-> FileFeatures] }

\* _load_ward_data
LoadWardData(file) ==
    IF file.exists THEN file.features
    ELSE [i \in 1 .. NumPlaceholder |-> PlaceholderWard(i)]

\* ward ids a caller may ask about: known ones and one that is in no collection
QueryWardIds == {"W1", "W01", "ZZ"}

(***************************************************************************)
(* hash() of a string                                                      *)
(***************************************************************************)
HashMod == 2 ^ 16

\* every ward id of the model, in a fixed order; a string's code is its index
IdTable == [i \in 1 .. NumPlaceholder |-> "W" \o Fmt02d(i)] \o <<"W1", "W2">>
StrCode(s) == 100 + (CHOOSE i \in 1 .. Len(IdTable) : IdTable[i] = s)
IntCode(n) == 50 + n
UnderscoreCode == 95

\* the text of ward_id, f"{ward_id}_{hour}" and f"{weekday}_{ward_id}"
TextWard(ward_id) == <<StrCode(ward_id)>>
TextWardHour(ward_id, hour) == <<StrCode(ward_id), UnderscoreCode, IntCode(hour)>>
TextWeekdayWard(weekday, ward_id) == <<IntCode(weekday), UnderscoreCode, StrCode(ward_id)>>

RECURSIVE HashFold(_, _)
HashFold(h, text) ==
    IF text = <<>> THEN h
    ELSE HashFold((h * 31 + Head(text) * 7) % HashMod, Tail(text))

\* hash(text) in a process whose hash key is seed: a signed value, never -1
PyHash(seed, text) ==
    LET h == HashFold((seed * 40503 + 9973) % HashMod, text)
        m == (h * 13 + (h \div 256)) % HashMod
        s == IF m >= HashMod \div 2 THEN m - HashMod ELSE m
    IN  IF s = -1 THEN -2 ELSE s

\* a % b as Python computes it for b > 0: the result is never negative
PyMod(a, b) == a % b

(***************************************************************************)
(* Scoring                                                                 *)
(***************************************************************************)
\* time_patterns: the hours listed under each name
PatternNames == <<"safest", "safe", "moderate", "risky", "high_risk">>

TimePatterns(name) ==
    CASE name = "safest" -> {10, 11, 12, 13, 14, 15}
      [] name = "safe" -> {7, 8, 9, 16, 17, 18}
      [] name = "moderate" -> {19, 20, 6}
      [] name = "risky" -> {21, 22, 5}
      [] name = "high_risk" -> {23, 0, 1, 2, 3, 4}

\* the chain with its last branch taking the offset of the first
BucketOffsetElseSafest(hour) ==
    IF hour \in {10, 11, 12, 13, 14, 15} THEN 8000000
    ELSE IF hour \in {7, 8, 9, 16, 17, 18} THEN 7000000
    ELSE IF hour \in {19, 20, 6} THEN 5000000
    ELSE IF hour \in {21, 22, 5} THEN 3000000
    ELSE 8000000

\* time_patterns and the if/elif chain over it: the offset of the hour's bucket
BucketOffset(hour) ==
    IF hour \in {10, 11, 12, 13, 14, 15} THEN 8000000
    ELSE IF hour \in {7, 8, 9, 16, 17, 18} THEN 7000000
    ELSE IF hour \in {19, 20, 6} THEN 5000000
    ELSE IF hour \in {21, 22, 5} THEN 3000000
    ELSE 2000000

\* 0.1 * np.sin(np.pi * hour / 12), to the nearest unit
SinTable == <<0, 258819, 500000, 707107, 866025, 965926, 1000000,
              965926, 866025, 707107, 500000, 258819, 0,
              -258819, -500000, -707107, -866025, -965926, -1000000,
              -965926, -866025, -707107, -500000, -258819>>
TenthSin(hour) == SinTable[(hour % 24) + 1]

BaseSafety(hour) == BucketOffset(hour) + TenthSin(hour)

\* hash(ward_id) % 20 / 100
WardModifier(seed, ward_id) ==
    PyMod(PyHash(seed, TextWard(ward_id)), ModifierMod) * (ONE \div 100)

\* The sum base_safety + ward_modifier is computed in IEEE-754 doubles.  For
\* the hours -1..24 and the twenty modifiers the double lies on the same side
\* of 0.4 and 0.7 as the decimal sum, except at hour 22 with modifier 0.15:
\* 0.3 + 0.1*sin(22*pi/12) + 0.15 evaluates to 0.3999999999999999, below 0.4.
FloatErr(hour, modifier) ==
    IF hour = 22 /\ modifier = 15 * (ONE \div 100) THEN -1 ELSE 0

\* min(max(base_safety + ward_modifier, 0), 1)
SafetyScoreUnclamped(hour, modifier) ==
    BaseSafety(hour) + modifier + FloatErr(hour, modifier)

SafetyScore(hour, modifier) ==
    Min(Max(BaseSafety(hour) + modifier + FloatErr(hour, modifier), 0), ONE)

\* the if/elif/else over safety_score
ClassifyStrict(score) ==
    IF score > GreenMin THEN "green"
    ELSE IF score > YellowMin THEN "yellow"
    ELSE "red"

Classify(score) ==
    IF score >= GreenMin THEN "green"
    ELSE IF score >= YellowMin THEN "yellow"
    ELSE "red"

\* round(x, 3) for x >= 0 in units: thousandths, ties to even
Round3(x) ==
    LET q == x \div (ONE \div 1000)
        r == x % (ONE \div 1000)
        half == (ONE \div 1000) \div 2
    IN  IF r > half \/ (r = half /\ q % 2 = 1) THEN q + 1 ELSE q

(***************************************************************************)
(* The random module                                                       *)
(***************************************************************************)
RngMod == 13

\* random.seed(a) for an int a
RandomSeedKeep(st, a) == st

RandomSeed(st, a) == Abs(a) % RngMod

RngStep(st) == (st * 6 + 5) % RngMod

\* random._randbelow(n): the value drawn and the state after it
RandBelow(st, n) == [val |-> RngStep(st) % n, st |-> RngStep(st)]

\* random.randint(a, b)
RandInt(st, a, b) ==
    LET d == RandBelow(st, b - a + 1) IN [val |-> a + d.val, st |-> d.st]

\* random.sample(population, k): the pool algorithm used for small populations
RECURSIVE SampleLoop(_, _, _, _)
SampleLoop(st, pool, k, result) ==
    IF k = 0 THEN [val |-> result, st |-> st]
    ELSE LET n == Len(pool)
             d == RandBelow(st, n)
             j == d.val + 1
             moved == [pool EXCEPT ![j] = pool[n]]
         IN  SampleLoop(d.st, SubSeq(moved, 1, n - 1), k - 1, Append(result, pool[j]))

RandomSample(st, population, k) == SampleLoop(st, population, k, <<>>)

(***************************************************************************)
(* _get_risk_factors                                                       *)
(***************************************************************************)
AllFactors ==
    <<"Poorly lit areas", "High pedestrian traffic", "Proximity to transit hubs",
      "Entertainment venues", "Commercial activity", "Residential density",
      "Previous incidents", "School/college proximity">>

\* the factors returned and the generator state left behind
GetRiskFactors(seed, st, hour, ward_id) ==
    LET s0 == RandomSeed(st, PyHash(seed, TextWardHour(ward_id, hour)))
        n == RandInt(s0, 1, 3)
        f == RandomSample(n.st, AllFactors, n.val)
    IN  [factors |-> f.val, st |-> f.st]

(***************************************************************************)
(* predict                                                                 *)
(***************************************************************************)
\* one pass of the loop over self.wards["features"]
WardPrediction(seed, st, hour, feature) ==
    LET score == SafetyScore(hour, WardModifier(seed, feature.ward_id))
        rf == GetRiskFactors(seed, st, hour, feature.ward_id)
    IN  [pred |-> [ward_id |-> feature.ward_id,
                   name |-> feature.name,
                   safety_level |-> Classify(score),
                   crime_probability |-> Round3(ONE - score),
                   risk_factors |-> rf.factors],
         st |-> rf.st]

RECURSIVE PredictLoop(_, _, _, _, _)
PredictLoop(seed, st, hour, features, acc) ==
    IF features = <<>> THEN [preds |-> acc, st |-> st]
    ELSE LET w == WardPrediction(seed, st, hour, Head(features))
         IN  PredictLoop(seed, w.st, hour, Tail(features), Append(acc, w.pred))

\* predict without its test for an empty collection
PredictCallUnguarded(seed, st, features, hour) ==
    [value |-> [hour |-> hour,
                timestamp |-> Fmt02d(hour) \o ":00",
                wards |-> PredictLoop(seed, st, hour, features, <<>>).preds],
     st |-> PredictLoop(seed, st, hour, features, <<>>).st]

\* what predict(hour) returns, and the generator state it leaves
PredictCall(seed, st, features, hour) ==
    IF Len(features) = 0
    THEN [value |-> [error |-> "No ward data available"], st |-> st]
    ELSE LET l == PredictLoop(seed, st, hour, features, <<>>)
         IN  [value |-> [hour |-> hour,
                         timestamp |-> Fmt02d(hour) \o ":00",
                         wards |-> l.preds],
              st |-> l.st]

(***************************************************************************)
(* _generate_historical_data                                               *)
(***************************************************************************)
\* date.weekday() and date.strftime("%A")
Weekday(date) == date % 7
WeekdayNames == <<"Monday", "Tuesday", "Wednesday", "Thursday", "Friday",
                  "Saturday", "Sunday">>
WeekdayName(date) == WeekdayNames[Weekday(date) + 1]

\* hash(f"{date.weekday()}_{ward_id}") % 20 / 100
DayFactor(seed, date, ward_id) ==
    PyMod(PyHash(seed, TextWeekdayWard(Weekday(date), ward_id)), ModifierMod)
        * (ONE \div 100)

\* the chain with hour 6 listed among the morning hours
HourFactorSixSafe(hour) ==
    IF hour \in {10, 11, 12, 13, 14, 15} THEN 8000000
    ELSE IF hour \in {6, 7, 8, 9, 16, 17, 18} THEN 7000000
    ELSE IF hour \in {19, 20} THEN 5000000
    ELSE IF hour \in {21, 22, 5} THEN 3000000
    ELSE 2000000

\* the if/elif chain over literal hour lists in the generator
HourFactor(hour) ==
    IF hour \in {10, 11, 12, 13, 14, 15} THEN 8000000
    ELSE IF hour \in {7, 8, 9, 16, 17, 18} THEN 7000000
    ELSE IF hour \in {19, 20, 6} THEN 5000000
    ELSE IF hour \in {21, 22, 5} THEN 3000000
    ELSE 2000000

\* the level thresholds as written a second time in the generator
HistClassify(score) ==
    IF score >= GreenMin THEN "green"
    ELSE IF score >= YellowMin THEN "yellow"
    ELSE "red"

HourlyRecord(seed, date, ward_id, hour) ==
    LET score == Min(Max(HourFactor(hour) + DayFactor(seed, date, ward_id), 0), ONE)
    IN  [hour |-> hour,
         safety_level |-> HistClassify(score),
         crime_probability |-> Round3(ONE - score)]

DailyRecord(seed, date, ward_id) ==
    [date |-> date,
     weekday |-> WeekdayName(date),
     hourly_data |-> [i \in 1 .. 24 |-> HourlyRecord(seed, date, ward_id, i - 1)]]

\* the loop counting day_offset upwards: the newest day comes first
DailyDataNewestFirst(seed, now, ward_id) ==
    [k \in 1 .. HistDays |-> DailyRecord(seed, now - k, ward_id)]

\* for day_offset in range(30, 0, -1): the k-th entry is today - (30 - k + 1)
DailyData(seed, now, ward_id) ==
    [k \in 1 .. HistDays |-> DailyRecord(seed, now - (HistDays - k + 1), ward_id)]

GenerateHistoricalData(seed, now, features) ==
    [w \in {features[i].ward_id : i \in 1 .. Len(features)} |->
        DailyData(seed, now, w)]

(***************************************************************************)
(* get_historical_safety_data                                              *)
(***************************************************************************)
\* seq[start:] with Python's treatment of a negative or too large start
PySliceFrom(seq, start) ==
    LET n == Len(seq)
        b == IF start < 0 THEN Max(n + start, 0) ELSE Min(start, n)
    IN  SubSeq(seq, b + 1, n)

PeriodNames == <<"morning", "afternoon", "evening", "night">>

\* time_periods with the evening ending at 20
PeriodHoursShortEvening(period) ==
    CASE period = "morning" -> {6, 7, 8, 9, 10, 11}
      [] period = "afternoon" -> {12, 13, 14, 15, 16, 17}
      [] period = "evening" -> {18, 19, 20}
      [] period = "night" -> {22, 23, 0, 1, 2, 3, 4, 5}

\* time_periods
PeriodHours(period) ==
    CASE period = "morning" -> {6, 7, 8, 9, 10, 11}
      [] period = "afternoon" -> {12, 13, 14, 15, 16, 17}
      [] period = "evening" -> {18, 19, 20, 21}
      [] period = "night" -> {22, 23, 0, 1, 2, 3, 4, 5}

\* how many hourly records of the days, within the hours, have the level
LevelCount(days_data, hours, level) ==
    Cardinality({<<d, h>> \in (1 .. Len(days_data)) \X (1 .. 24) :
                    /\ days_data[d].hourly_data[h].hour \in hours
                    /\ days_data[d].hourly_data[h].safety_level = level})

\* the else branch of the counting chain takes every level that is not
\* green or yellow
OtherCount(days_data, hours) ==
    Cardinality({<<d, h>> \in (1 .. Len(days_data)) \X (1 .. 24) :
                    /\ days_data[d].hourly_data[h].hour \in hours
                    /\ days_data[d].hourly_data[h].safety_level \notin {"green", "yellow"}})

\* round(num / den, 0) for num >= 0, den > 0, ties to even
RoundDivPos(num, den) ==
    LET q == num \div den
        r == num % den
    IN  IF 2 * r > den \/ (2 * r = den /\ q % 2 = 1) THEN q + 1 ELSE q

\* round((count / total_hours) * 100, 1), in tenths of a percent; total # 0
Pct(count, total) ==
    IF total > 0 THEN RoundDivPos(1000 * count, total)
    ELSE -RoundDivPos(1000 * count, -total)

\* the chain that picks the dominant level
DominantYellowFirst(g, y, r) ==
    IF y >= g /\ y >= r THEN "yellow"
    ELSE IF g >= y /\ g >= r THEN "green"
    ELSE "red"

DominantOf(g, y, r) ==
    IF g >= y /\ g >= r THEN "green"
    ELSE IF y >= g /\ y >= r THEN "yellow"
    ELSE "red"

\* one entry of period_stats; total # 0
PeriodStat(g, y, r, total) ==
    LET dominant == DominantOf(g, y, r)
        count == IF dominant = "green" THEN g
                 ELSE IF dominant = "yellow" THEN y ELSE r
    IN  [dominant_safety |-> dominant,
         dominant_percentage |-> Pct(count, total),
         green_pct |-> Pct(g, total),
         yellow_pct |-> Pct(y, total),
         red_pct |-> Pct(r, total)]

\* days = min(days, 30)
ClampDaysNone(days) == days

ClampDays(days) == Min(days, MaxDays)

\* historical_data = self.historical_data[ward_id][-days:]
LastDays(series, days) == PySliceFrom(series, -days)

\* what get_historical_safety_data(ward_id, days) returns or raises
HistoricalCall(hist, ward_id, days_arg) ==
    LET days == ClampDays(days_arg)
    IN  IF ward_id \notin DOMAIN hist
        THEN [raised |-> "none",
              value |-> [error |-> "No historical data for ward " \o ward_id]]
        ELSE LET data == LastDays(hist[ward_id], days)
                 total(p) == Cardinality(PeriodHours(p)) * days
                 stat(p) == PeriodStat(LevelCount(data, PeriodHours(p), "green"),
                                       LevelCount(data, PeriodHours(p), "yellow"),
                                       OtherCount(data, PeriodHours(p)),
                                       total(p))
             IN  IF \E i \in 1 .. Len(PeriodNames) : total(PeriodNames[i]) = 0
                 THEN [raised |-> "ZeroDivisionError", value |-> [error |-> ""]]
                 ELSE [raised |-> "none",
                       value |-> [ward_id |-> ward_id,
                                  days_analyzed |-> days,
                                  daily_data |-> data,
                                  period_stats |->
                                      [p \in {PeriodNames[i] : i \in 1 .. Len(PeriodNames)}
                                          |-> stat(p)]]]

(***************************************************************************)
(* predict_future_risk                                                     *)
(***************************************************************************)
\* future_time.month for the ordinals the model reaches (January .. March 2024)
MonthOf(date) == IF date < 31 THEN 1 ELSE IF date < 60 THEN 2 ELSE 3

\* Mumbai coordinates used as fallback, in units of 0.0001 degree
FallbackLat == 190760
FallbackLng == 728777

RECURSIVE SumSeq(_)
SumSeq(q) == IF q = <<>> THEN 0 ELSE Head(q) + SumSeq(Tail(q))

\* the centre point taken from ward_info["geometry"]["coordinates"][0]
CentroidOrFallback(coords) ==
    LET usable == SelectSeq(coords, LAMBDA c : Len(c) >= 2)
        lats == [i \in 1 .. Len(usable) |-> usable[i][2]]
        longs == [i \in 1 .. Len(usable) |-> usable[i][1]]
    IN  IF Len(coords) > 0 /\ Len(usable) > 0
        THEN [lat |-> SumSeq(lats) \div Len(lats), lng |-> SumSeq(longs) \div Len(longs)]
        ELSE [lat |-> FallbackLat, lng |-> FallbackLng]

\* (rf.predict_proba + gb.predict_proba) / 2 of the fitted pair ens: three
\* class probabilities in thousandths.  What the pair learned from random
\* training data is not fixed by the code; it is a function of the pair.
EnsembleProba(ens, hour, day, month, lat, lng) ==
    LET m == (ens * 7919 + hour * 31 + day * 17 + month * 13 + lat + lng) % 1009
        a == (m * 37) % 1001
        b == (m * 91) % (1001 - a)
    IN  <<a, b, 1000 - a - b>>

\* np.argmax: the first index of the largest entry, counted from 0
ArgMax(p) == CHOOSE i \in 0 .. 2 :
                 /\ \A j \in 0 .. 2 : p[i + 1] >= p[j + 1]
                 /\ \A j \in 0 .. 2 : j < i => p[j + 1] < p[i + 1]

\* the first feature whose ward_id matches, as an index, or 0
FindWard(features, ward_id) ==
    IF \E i \in 1 .. Len(features) : features[i].ward_id = ward_id
    THEN CHOOSE i \in 1 .. Len(features) :
             /\ features[i].ward_id = ward_id
             /\ \A j \in 1 .. (i - 1) : features[j].ward_id # ward_id
    ELSE 0

FuturePrediction(ens, seed, st, feature, nowDate, nowHour, i) ==
    LET t == nowHour + i
        hour == t % 24
        date == nowDate + (t \div 24)
        c == CentroidOrFallback(feature.coords)
        proba == EnsembleProba(ens, hour, Weekday(date), MonthOf(date), c.lat, c.lng)
        risk_class == ArgMax(proba)
        rf == GetRiskFactors(seed, st, hour, feature.ward_id)
    IN  [pred |-> [timestamp |-> [date |-> date, hour |-> hour],
                   hour |-> hour,
                   safety_level |-> IF risk_class = 0 THEN "green"
                                    ELSE IF risk_class = 1 THEN "yellow" ELSE "red",
                   probability |-> proba[risk_class + 1],
                   risk_factors |-> rf.factors],
         st |-> rf.st]

RECURSIVE FutureLoop(_, _, _, _, _, _, _, _, _)
FutureLoop(ens, seed, st, feature, nowDate, nowHour, i, n, acc) ==
    IF i >= n THEN [preds |-> acc, st |-> st]
    ELSE LET f == FuturePrediction(ens, seed, st, feature, nowDate, nowHour, i)
         IN  FutureLoop(ens, seed, f.st, feature, nowDate, nowHour, i + 1, n,
                        Append(acc, f.pred))

\* what predict_future_risk(ward_id, future_hours) returns at time (nowDate, nowHour)
FutureCall(ens, seed, st, features, ward_id, future_hours, nowDate, nowHour) ==
    IF ens = 0
    THEN [value |-> [error |-> "Prediction models not available"], st |-> st]
    ELSE IF FindWard(features, ward_id) = 0
    THEN [value |-> [error |-> "Ward " \o ward_id \o " not found"], st |-> st]
    ELSE LET feature == features[FindWard(features, ward_id)]
             l == FutureLoop(ens, seed, st, feature, nowDate, nowHour, 0,
                             future_hours, <<>>)
         IN  [value |-> [ward_id |-> ward_id,
                         ward_name |-> feature.name,
                         predictions |-> l.preds],
              st |-> l.st]

(***************************************************************************)
(* get_safety_tips                                                         *)
(***************************************************************************)
GeneralTips ==
    <<"Stay aware of your surroundings at all times",
      "Keep emergency contacts readily available",
      "Share your location with trusted contacts when traveling",
      "Stay in well-lit and populated areas when possible">>

LevelTips(level) ==
    CASE level = "green" ->
            <<"This area is generally safe, but basic precautions are still recommended",
              "Normal vigilance is sufficient in this area",
              "Enjoy your activities while maintaining standard awareness">>
      [] level = "yellow" ->
            <<"Moderate caution is advised in this area",
              "Avoid walking alone at night if possible",
              "Keep valuables concealed and secure",
              "Stay in well-lit and populated areas">>
      [] level = "red" ->
            <<"Extra vigilance is strongly recommended",
              "Avoid traveling alone, especially after dark",
              "Consider alternative routes or transportation",
              "Keep in constant contact with someone who knows your whereabouts",
              "Avoid displaying valuable items in public">>
      [] OTHER -> <<>>

FactorTips(factor) ==
    CASE factor = "Poorly lit areas" ->
            <<"Use a flashlight or phone light in dark areas",
              "Stick to main roads with proper lighting",
              "Travel in groups when possible">>
      [] factor = "High pedestrian traffic" ->
            <<"Keep your wallet/purse secure and close to your body",
              "Be aware of pickpockets in crowded areas",
              "Avoid distractions like using phone in very crowded places">>
      [] factor = "Proximity to transit hubs" ->
            <<"Be extra vigilant around bus and train stations",
              "Secure your luggage and personal belongings",
              "Pre-plan your route to minimize waiting time">>
      [] factor = "Entertainment venues" ->
            <<"Consume alcohol responsibly if visiting bars/clubs",
              "Never leave drinks unattended",
              "Plan your return transportation in advance">>
      [] factor = "Commercial activity" ->
            <<"Keep shopping bags close and monitored",
              "Avoid displaying large amounts of cash",
              "Be cautious in market areas with dense crowds">>
      [] factor = "Residential density" ->
            <<"Check if your building has functioning security measures",
              "Lock doors and windows properly",
              "Be aware of your neighbors and report suspicious activity">>
      [] factor = "Previous incidents" ->
            <<"Check local news for recent crime patterns in this area",
              "Avoid areas with repeated criminal activity",
              "Follow police advisories for this location">>
      [] factor = "School/college proximity" ->
            <<"Be alert during opening and closing hours when crowds gather",
              "Watch for traffic congestion during school rush hours",
              "Report suspicious individuals loitering near educational institutions">>
      [] OTHER -> <<>>

\* the chain with hour 6 still counted as night
TimeTipsSixNight(hour) ==
    IF 0 <= hour /\ hour <= 6
    THEN <<"Consider using private transportation rather than walking",
           "Inform someone of your expected arrival time",
           "Avoid poorly lit shortcuts">>
    ELSE IF 6 <= hour /\ hour < 12
    THEN <<"Morning rush hour may create opportunities for pickpockets",
           "Be cautious at ATMs during early banking hours",
           "Watch for traffic congestion around schools and offices">>
    ELSE IF 12 <= hour /\ hour < 18
    THEN <<"Be cautious in crowded shopping areas during peak hours",
           "Stay hydrated and watch for heat-related health issues",
           "Be alert for potential scams in tourist areas">>
    ELSE <<"Prefer well-traveled routes after sunset",
           "Keep your phone charged for emergencies",
           "Avoid displaying valuable electronics in public">>

\* the if/elif chain that sets time_tips
TimeTips(hour) ==
    IF 0 <= hour /\ hour < 6
    THEN <<"Consider using private transportation rather than walking",
           "Inform someone of your expected arrival time",
           "Avoid poorly lit shortcuts">>
    ELSE IF 6 <= hour /\ hour < 12
    THEN <<"Morning rush hour may create opportunities for pickpockets",
           "Be cautious at ATMs during early banking hours",
           "Watch for traffic congestion around schools and offices">>
    ELSE IF 12 <= hour /\ hour < 18
    THEN <<"Be cautious in crowded shopping areas during peak hours",
           "Stay hydrated and watch for heat-related health issues",
           "Be alert for potential scams in tourist areas">>
    ELSE <<"Prefer well-traveled routes after sunset",
           "Keep your phone charged for emergencies",
           "Avoid displaying valuable electronics in public">>

\* specific_tips: the level's tips extended by each reported factor's tips
RECURSIVE ExtendWithFactorTips(_, _)
ExtendWithFactorTips(tips, factors) ==
    IF factors = <<>> THEN tips
    ELSE ExtendWithFactorTips(tips \o FactorTips(Head(factors)), Tail(factors))

\* the first entry of safety_data.get("wards", []) with the ward id, or 0
FindPrediction(value, ward_id) ==
    IF "wards" \in DOMAIN value
    THEN IF \E i \in 1 .. Len(value.wards) : value.wards[i].ward_id = ward_id
         THEN CHOOSE i \in 1 .. Len(value.wards) :
                  /\ value.wards[i].ward_id = ward_id
                  /\ \A j \in 1 .. (i - 1) : value.wards[j].ward_id # ward_id
         ELSE 0
    ELSE 0

\* the response with the tips of the risk factors only
TipsForFactorsOnly(ward_data, ward_id, hour) ==
    [ward_id |-> ward_id,
     ward_name |-> ward_data.name,
     safety_level |-> ward_data.safety_level,
     general_tips |-> GeneralTips,
     specific_tips |-> ExtendWithFactorTips(<<>>, ward_data.risk_factors),
     time_tips |-> TimeTips(hour)]

\* the response composed from the ward's prediction
TipsFor(ward_data, ward_id, hour) ==
    [ward_id |-> ward_id,
     ward_name |-> ward_data.name,
     safety_level |-> ward_data.safety_level,
     general_tips |-> GeneralTips,
     specific_tips |-> ExtendWithFactorTips(LevelTips(ward_data.safety_level),
                                            ward_data.risk_factors),
     time_tips |-> TimeTips(hour)]

\* the part of get_safety_tips after safety_data = self.predict(hour)
TipsFromPrediction(p, ward_id, hour) ==
    IF FindPrediction(p.value, ward_id) = 0
    THEN [value |-> [error |-> "No data available for ward " \o ward_id], st |-> p.st]
    ELSE [value |-> TipsFor(p.value.wards[FindPrediction(p.value, ward_id)],
                            ward_id, hour),
          st |-> p.st]

\* what get_safety_tips(ward_id, hour) returns once hour is set
TipsCall(seed, st, features, ward_id, hour) ==
    TipsFromPrediction(PredictCall(seed, st, features, hour), ward_id, hour)

(***************************************************************************)
(* DataProcessor: the ward store (src/data_processor.py)                   *)
(* Coordinates are integers in units of 0.0001 degree, distances are in    *)
(* metres, a distance_km (the result of round(x, 2)) is an integer number  *)
(* of hundredths of a kilometre.  A search query is a sequence of          *)
(* characters.                                                             *)
(***************************************************************************)
BaseLat == 190760
BaseLng == 728777
EnhanceCount == 20
EnhanceRadius == 10
MockCount == 40
MockRadius == 50
RadiusMetres == 30000

\* the pairs (lat_offset, lng_offset) that random.random() gives the new
\* wards of _enhance_ward_data: magnitudes in [0.001, 0.005), either sign
EnhanceOffsets == << <<24, 24>>, <<-20, -20>>, <<10, -49>>, <<-35, 12>> >>

\* the same for _generate_mock_ward_data: magnitudes in [0, 0.05)
MockOffsets ==
    << <<120, -340>>, <<-455, 60>>, <<0, 499>>, <<-250, -250>>, <<310, 205>> >>

\* the closed square of half-width r around a point, as [lng, lat] pairs
SquareAround(lat, lng, r) ==
    << <<lng - r, lat - r>>, <<lng + r, lat - r>>, <<lng + r, lat + r>>,
       <<lng - r, lat + r>>, <<lng - r, lat - r>> >>

\* the mean of the vertices that have two coordinates, if there is one
CenterOfUsable(usable) ==
    IF Len(usable) = 0 THEN [ok |-> FALSE, lat |-> 0, lng |-> 0]
    ELSE [ok |-> TRUE,
          lat |-> SumSeq([i \in 1 .. Len(usable) |-> usable[i][2]]) \div Len(usable),
          lng |-> SumSeq([i \in 1 .. Len(usable) |-> usable[i][1]]) \div Len(usable)]

WardCenter(coords) == CenterOfUsable(SelectSeq(coords, LAMBDA c : Len(c) >= 2))

\* ref_lat, ref_lng: the centre of the reference ward, or the base point
RefPoint(center) ==
    IF center.ok THEN center ELSE [ok |-> TRUE, lat |-> BaseLat, lng |-> BaseLng]

\* the ward added in pass i of the loop (i from 0), given the draws
NewWard(count, i, ref, off) ==
    [ward_id |-> "W" \o Str(count + i + 1),
     name |-> "Ward W" \o Str(count + i + 1),
     coords |-> SquareAround(ref.lat + off[1], ref.lng + off[2], EnhanceRadius)]

EnhancedWard(existing, i, g) ==
    NewWard(Len(existing), i,
            RefPoint(WardCenter(existing[(i % Len(existing)) + 1].coords)),
            EnhanceOffsets[(((i \div 2) + g) % Len(EnhanceOffsets)) + 1])

\* _enhance_ward_data as _load_wards runs it: with no feature in the file
\* i % existing_count raises ZeroDivisionError, which _load_wards logs, and
\* the collection stays as loaded
EnhanceWardData(features, g) ==
    IF Len(features) = 0 THEN features
    ELSE features \o [i \in 1 .. EnhanceCount |-> EnhancedWard(features, i - 1, g)]

Letters == <<"A", "B", "C", "D", "E", "F", "G", "H", "I", "J", "K", "L", "M",
             "N", "O", "P", "Q", "R", "S", "T", "U", "V", "W", "X", "Y", "Z">>
SmallLetters == <<"a", "b", "c", "d", "e", "f", "g", "h", "i", "j", "k", "l", "m",
                  "n", "o", "p", "q", "r", "s", "t", "u", "v", "w", "x", "y", "z">>

MockWard(i, off) ==
    [ward_id |-> "W" \o Str(i + 1),
     name |-> "Ward " \o Letters[(i % 26) + 1] \o Str((i \div 26) + 1),
     coords |-> SquareAround(BaseLat + off[1], BaseLng + off[2], MockRadius)]

GenerateMockWardData(g) ==
    [i \in 1 .. MockCount |->
        MockWard(i - 1, MockOffsets[(((i - 1) + g) % Len(MockOffsets)) + 1])]

\* _load_wards, the draws of the random generator being those of choice g
LoadWards(file, g) ==
    IF file.exists THEN EnhanceWardData(file.features, g)
    ELSE GenerateMockWardData(g)

\* integer square root
RECURSIVE SqrtIter(_, _)
SqrtIter(n, x) ==
    IF (x + n \div x) \div 2 >= x THEN x ELSE SqrtIter(n, (x + n \div x) \div 2)
ISqrt(n) == IF n = 0 THEN 0 ELSE SqrtIter(n, n)

\* geodesic(a, b) in metres.  At the latitude of the city a unit of latitude
\* is 11.07 m and a unit of longitude 10.53 m; beyond 2800 units the
\* distance is computed in steps of 100 m.
MetresPerLat == 1107
MetresPerLng == 1053
Hypot(dy, dx) == ISqrt(dy * dy + dx * dx)
GeodesicOf(dlat, dlng) ==
    IF dlat <= 2800 /\ dlng <= 2800
    THEN Hypot((dlat * MetresPerLat) \div 100, (dlng * MetresPerLng) \div 100)
    ELSE 100 * Hypot((dlat * MetresPerLat) \div 10000, (dlng * MetresPerLng) \div 10000)
Geodesic(a, b) == GeodesicOf(Abs(a.lat - b.lat), Abs(a.lng - b.lng))

\* round(distance, 2) of a distance in kilometres
RoundKm(metres) == (metres + 5) \div 10

\* None
NoWard == [none |-> TRUE]
IsWard(value) == "ward_id" \in DOMAIN value

\* the test of the loop of map_coordinates_to_ward with <= for <: the later
\* of two wards at the same distance replaces the earlier
CloserOrEqual(best, center, distance) ==
    center.ok /\ (~best.found \/ distance <= best.min)

\* the ward has a centre and distance < min_distance
Closer(best, center, distance) ==
    center.ok /\ (~best.found \/ distance < best.min)

\* min_distance and nearest_ward after the assignment
Candidate(feature, center, distance) ==
    [found |-> TRUE, min |-> distance,
     ward |-> [ward_id |-> feature.ward_id, name |-> feature.name,
               distance_km |-> RoundKm(distance),
               latitude |-> center.lat, longitude |-> center.lng]]

DistanceTo(point, center) == IF center.ok THEN Geodesic(point, center) ELSE 0

RECURSIVE NearestLoop(_, _, _)
RECURSIVE NearestVisit(_, _, _, _, _)
\* one pass of the loop over the features, then the remaining passes
NearestVisit(best, features, point, center, distance) ==
    IF Closer(best, center, distance)
    THEN NearestLoop(Candidate(Head(features), center, distance),
                     Tail(features), point)
    ELSE NearestLoop(best, Tail(features), point)

NearestLoop(best, features, point) ==
    IF features = <<>> THEN best
    ELSE NearestVisit(best, features, point, WardCenter(Head(features).coords),
                      DistanceTo(point, WardCenter(Head(features).coords)))

NearestResult(best) ==
    IF best.found /\ best.min <= RadiusMetres THEN best.ward ELSE NoWard

\* what map_coordinates_to_ward(lat, lng) returns
MapCoordinatesCall(features, point) ==
    NearestResult(NearestLoop([found |-> FALSE, min |-> 0, ward |-> NoWard],
                              features, point))

\* query.lower() and the test "mumbai" in it
ToLower(q) ==
    [i \in 1 .. Len(q) |->
        IF \E k \in 1 .. Len(Letters) : Letters[k] = q[i]
        THEN SmallLetters[CHOOSE k \in 1 .. Len(Letters) : Letters[k] = q[i]]
        ELSE q[i]]
Contains(q, sub) ==
    \E i \in 0 .. (Len(q) - Len(sub)) : SubSeq(q, i + 1, i + Len(sub)) = sub
CityWord == <<"m", "u", "m", "b", "a", "i">>
Qualifier == <<",", " ", "M", "u", "m", "b", "a", "i", ",", " ",
               "I", "n", "d", "i", "a">>
Qualify(query) ==
    IF ~Contains(ToLower(query), CityWord) THEN query \o Qualifier ELSE query

\* what geolocator.geocode does: it raises, finds nothing, or finds a place
GeoRaises == [kind |-> "raises", lat |-> 0, lng |-> 0]
GeoNothing == [kind |-> "none", lat |-> 0, lng |-> 0]
GeoAt(lat, lng) == [kind |-> "location", lat |-> lat, lng |-> lng]

\* random.uniform(lo, hi) for the generator value r
Uniform(lo, hi, r) == lo + ((hi - lo) * r) \div RngMod

RECURSIVE RngAfter(_, _)
RngAfter(st, k) == IF k = 0 THEN st ELSE RngAfter(RngStep(st), k - 1)

\* the ward the except branch makes up from random.choice and five
\* random.uniform draws
FabricatedWard(feature, st, query) ==
    [ward_id |-> feature.ward_id,
     name |-> feature.name,
     distance_km |-> Uniform(10, 500, RngAfter(st, 2)),
     search_query |-> query,
     matched_location |-> "Near " \o feature.name \o ", Mumbai, India",
     latitude |-> BaseLat + Uniform(-200, 200, RngAfter(st, 3)),
     longitude |-> BaseLng + Uniform(-200, 200, RngAfter(st, 4)),
     search_lat |-> BaseLat + Uniform(-100, 100, RngAfter(st, 5)),
     search_lng |-> BaseLng + Uniform(-100, 100, RngAfter(st, 6))]

\* ward_info.update(...)
WithSearch(ward_info, query, geo) ==
    IF IsWard(ward_info)
    THEN [ward_id |-> ward_info.ward_id,
          name |-> ward_info.name,
          distance_km |-> ward_info.distance_km,
          latitude |-> ward_info.latitude,
          longitude |-> ward_info.longitude,
          search_query |-> query,
          matched_location |-> "address",
          search_lat |-> geo.lat,
          search_lng |-> geo.lng]
    ELSE NoWard

\* what map_search_query_to_ward returns for the qualified query, and the
\* generator state it leaves
SearchQualified(features, st, query, geo) ==
    IF geo.kind = "raises"
    THEN IF Len(features) > 0
         THEN [value |-> FabricatedWard(features[RandBelow(st, Len(features)).val + 1],
                                        st, query),
               st |-> RngAfter(st, 6)]
         ELSE [value |-> NoWard, st |-> st]
    ELSE IF geo.kind = "location"
            /\ Geodesic([lat |-> BaseLat, lng |-> BaseLng], geo) <= RadiusMetres
    THEN [value |-> WithSearch(MapCoordinatesCall(features, geo), query, geo),
          st |-> st]
    ELSE [value |-> NoWard, st |-> st]

MapSearchQueryCall(features, st, query, geo) ==
    SearchQualified(features, st, Qualify(query), geo)

(***************************************************************************)
(* Inputs                                                                  *)
(***************************************************************************)
DaysInputs == (-1 .. MaxSmallDays) \cup ((HistDays - 1) .. (HistDays + 1))
FutureInputs == -1 .. MaxFutureHours
NowHours == {MinHour, MaxHour}

\* a query parameter as it arrives: missing, a decimal integer, or other text
RawAbsent == [kind |-> "absent", int |-> 0, text |-> ""]
RawInt(n) == [kind |-> "int", int |-> n, text |-> ""]
RawText(t) == [kind |-> "text", int |-> 0, text |-> t]

RawHours == {RawAbsent, RawText("noon")} \cup
            {RawInt(n) : n \in {MinHour - 1, MinHour, MaxHour, MaxHour + 1}}
RawDays == {RawAbsent, RawText("1.5")} \cup {RawInt(n) : n \in DaysInputs}
RawFutureHours == {RawAbsent, RawText("soon")} \cup {RawInt(n) : n \in FutureInputs}

\* request.args.get('q', ''): the parameter may be missing
NoQuery == [present |-> FALSE, text |-> <<>>]
QueryInputs ==
    {NoQuery} \cup
    {[present |-> TRUE, text |-> t] :
        t \in {<<>>, <<"F", "o", "r", "t">>, <<"M", "U", "M", "B", "A", "I">>,
               <<"F", "o", "r", "t", ",", " ", "m", "u", "m", "b", "a", "i">>}}

\* places looked up: the city centre, the last point within 30 km north of
\* it and the first beyond, a point farther than 30 km from every ward, a
\* city 1000 km away, and the centres of the first ward of the boundary file
\* and of the first generated ward
ProbePoints ==
    {GeoAt(BaseLat, BaseLng), GeoAt(BaseLat + 2710, BaseLng),
     GeoAt(BaseLat + 2711, BaseLng), GeoAt(BaseLat + 3300, BaseLng),
     GeoAt(286139, 772090),
     GeoAt(WardCenter(FileFeatures[1].coords).lat,
           WardCenter(FileFeatures[1].coords).lng),
     GeoAt(WardCenter(GenerateMockWardData(0)[1].coords).lat,
           WardCenter(GenerateMockWardData(0)[1].coords).lng)}

\* int(request.args.get(name, default))
ParseInt(raw, default) ==
    IF raw.kind = "absent" THEN [ok |-> TRUE, val |-> default]
    ELSE IF raw.kind = "int" THEN [ok |-> TRUE, val |-> raw.int]
    ELSE [ok |-> FALSE, val |-> 0]

(***************************************************************************)
(* State                                                                   *)
(***************************************************************************)
NoValue == [error |-> ""]
NoFirst == [set |-> FALSE, hour |-> 0, run |-> 0, later |-> FALSE, value |-> NoValue]

\* no call is in progress and the last result has been taken
Idle == [op |-> "idle", ward |-> "", arg |-> 0, raw |-> RawAbsent,
         status |-> 0, raised |-> "none", value |-> NoValue]

\* a method of the predictor was called directly
Returned(op, ward, arg, value) ==
    [op |-> op, ward |-> ward, arg |-> arg, raw |-> RawAbsent,
     status |-> 0, raised |-> "none", value |-> value]
Raised(op, ward, arg, exc) ==
    [op |-> op, ward |-> ward, arg |-> arg, raw |-> RawAbsent,
     status |-> 0, raised |-> exc, value |-> NoValue]
\* a request was answered: jsonify(value), status
Answered(op, ward, raw, status, value) ==
    [op |-> op, ward |-> ward, arg |-> 0, raw |-> raw,
     status |-> status, raised |-> "none", value |-> value]

\* no search is in progress
NoSearch == [q |-> NoQuery, sent |-> <<>>, geo |-> GeoNothing]

\* SafetyPredictor.__init__ in a process with the given hash key
Construct(seed, file, now, ens, st) ==
    /\ hashseed' = seed
    /\ wardFile' = file
    /\ today' = now
    /\ ensemble' = ens
    /\ model' = (ens # 0)
    /\ rng' = st
    /\ wards' = LoadWardData(file)
    /\ historical_data' = GenerateHistoricalData(seed, now, LoadWardData(file))

Init ==
    /\ hashseed \in 0 .. (MaxSeed - 1)
    /\ wardFile \in WardFiles
    /\ today \in Today0 .. (Today0 + MaxTodayOffset)
    /\ ensemble \in 0 .. MaxEnsemble
    /\ model = (ensemble # 0)
    /\ rng \in 0 .. (MaxRngInit - 1)
    /\ wards = LoadWardData(wardFile)
    /\ historical_data = GenerateHistoricalData(hashseed, today, wards)
    /\ run = 0
    /\ resp = Idle
    /\ first = NoFirst
    /\ \E g \in 0 .. (MaxGeo - 1) : store = LoadWards(wardFile, g)
    /\ search = NoSearch
    /\ threads = <<>>

(***************************************************************************)
(* Calls of the predictor's methods                                        *)
(***************************************************************************)
\* predict(hour): self.model is set by _load_model when it was false
PredictStep(hour) ==
    LET p == PredictCall(hashseed, rng, wards, hour)
    IN  /\ resp = Idle
        /\ model' = TRUE
        /\ rng' = p.st
        /\ resp' = Returned("predict", "", hour, p.value)
        /\ UNCHANGED <<store, search, threads, hashseed, wardFile, today, wards, ensemble, historical_data, run>>

Predict(hour) == PredictStep(hour) /\ UNCHANGED first

GetHistoricalStep(ward_id, days) ==
    LET h == HistoricalCall(historical_data, ward_id, days)
    IN  /\ resp = Idle
        /\ resp' = IF h.raised = "none"
                   THEN Returned("get_historical_safety_data", ward_id, days, h.value)
                   ELSE Raised("get_historical_safety_data", ward_id, days, h.raised)
        /\ UNCHANGED <<store, search, threads, hashseed, wardFile, today, wards, model, ensemble,
                       historical_data, rng, run>>

GetHistoricalSafetyData(ward_id, days) ==
    GetHistoricalStep(ward_id, days) /\ UNCHANGED first

PredictFutureStep(ward_id, future_hours, nowHour) ==
    LET f == FutureCall(ensemble, hashseed, rng, wards, ward_id, future_hours,
                        today, nowHour)
    IN  /\ resp = Idle
        /\ rng' = f.st
        /\ resp' = Returned("predict_future_risk", ward_id, future_hours, f.value)
        /\ UNCHANGED <<store, search, threads, hashseed, wardFile, today, wards, model, ensemble,
                       historical_data, run>>

PredictFutureRisk(ward_id, future_hours, nowHour) ==
    PredictFutureStep(ward_id, future_hours, nowHour) /\ UNCHANGED first

\* get_safety_tips(ward_id, hour) with an hour given
GetSafetyTipsStep(ward_id, hour) ==
    LET t == TipsCall(hashseed, rng, wards, ward_id, hour)
    IN  /\ resp = Idle
        /\ model' = TRUE
        /\ rng' = t.st
        /\ resp' = Returned("get_safety_tips", ward_id, hour, t.value)
        /\ UNCHANGED <<store, search, threads, hashseed, wardFile, today, wards, ensemble,
                       historical_data, run>>

GetSafetyTips(ward_id, hour) ==
    GetSafetyTipsStep(ward_id, hour) /\ UNCHANGED first

(***************************************************************************)
(* Request handlers                                                        *)
(***************************************************************************)
InvalidInput == [error |-> "Invalid input"]
HourRange == [error |-> "Hour must be between 0 and 23"]

\* GET /api/predict?hour=raw
ApiPredict(raw) ==
    LET hour == ParseInt(raw, DefaultHour)
        p == PredictCall(hashseed, rng, wards, hour.val)
        called == hour.ok /\ ~(hour.val < 0 \/ hour.val > 23)
    IN  /\ resp = Idle
        /\ resp' = IF ~hour.ok
                   THEN Answered("/api/predict", "", raw, 400, InvalidInput)
                   ELSE IF hour.val < 0 \/ hour.val > 23
                   THEN Answered("/api/predict", "", raw, 400, HourRange)
                   ELSE Answered("/api/predict", "", raw, 200, p.value)
        /\ model' = IF called THEN TRUE ELSE model
        /\ rng' = IF called THEN p.st ELSE rng
        /\ UNCHANGED <<store, search, threads, hashseed, wardFile, today, wards, ensemble,
                       historical_data, run, first>>

\* GET /api/historical/<ward_id>?days=raw
ApiHistorical(ward_id, raw) ==
    LET days == ParseInt(raw, DefaultDays)
        h == HistoricalCall(historical_data, ward_id, days.val)
    IN  /\ resp = Idle
        /\ resp' = IF ~days.ok
                   THEN Answered("/api/historical", ward_id, raw, 400, InvalidInput)
                   ELSE IF h.raised # "none"
                   THEN Answered("/api/historical", ward_id, raw, 500,
                                 [error |-> "Failed to retrieve historical data"])
                   ELSE Answered("/api/historical", ward_id, raw, 200, h.value)
        /\ UNCHANGED <<store, search, threads, hashseed, wardFile, today, wards, model, ensemble,
                       historical_data, rng, run, first>>

\* GET /api/future/<ward_id>?hours=raw
ApiFuture(ward_id, raw, nowHour) ==
    LET hours == ParseInt(raw, DefaultFutureHours)
        f == FutureCall(ensemble, hashseed, rng, wards, ward_id, hours.val,
                        today, nowHour)
    IN  /\ resp = Idle
        /\ resp' = IF ~hours.ok
                   THEN Answered("/api/future", ward_id, raw, 400, InvalidInput)
                   ELSE Answered("/api/future", ward_id, raw, 200, f.value)
        /\ rng' = IF hours.ok THEN f.st ELSE rng
        /\ UNCHANGED <<store, search, threads, hashseed, wardFile, today, wards, model, ensemble,
                       historical_data, run, first>>

\* GET /api/tips/<ward_id>?hour=raw; without the parameter get_safety_tips
\* takes datetime.now().hour
ApiTips(ward_id, raw, nowHour) ==
    LET hour == ParseInt(raw, nowHour)
        t == TipsCall(hashseed, rng, wards, ward_id, hour.val)
        called == hour.ok /\ ~(raw.kind = "int" /\ (hour.val < 0 \/ hour.val > 23))
    IN  /\ resp = Idle
        /\ resp' = IF ~hour.ok
                   THEN Answered("/api/tips", ward_id, raw, 400, InvalidInput)
                   ELSE IF raw.kind = "int" /\ (hour.val < 0 \/ hour.val > 23)
                   THEN Answered("/api/tips", ward_id, raw, 400, HourRange)
                   ELSE Answered("/api/tips", ward_id, raw, 200, t.value)
        /\ model' = IF called THEN TRUE ELSE model
        /\ rng' = IF called THEN t.st ELSE rng
        /\ UNCHANGED <<store, search, threads, hashseed, wardFile, today, wards, ensemble,
                       historical_data, run, first>>

\* map_coordinates_to_ward(lat, lng)
MapCoordinatesToWard(point) ==
    /\ resp = Idle
    /\ resp' = Returned("map_coordinates_to_ward", "", 0,
                        MapCoordinatesCall(store, point))
    /\ search' = [q |-> NoQuery, sent |-> <<>>, geo |-> point]
    /\ UNCHANGED <<store, threads, hashseed, wardFile, today, wards, model, ensemble,
                   historical_data, rng, run, first>>

SearchAnswer(value) ==
    IF IsWard(value) THEN Answered("/api/search", "", RawAbsent, 200, value)
    ELSE Answered("/api/search", "", RawAbsent, 404,
                  [error |-> "Location not found or not in Mumbai area"])

\* GET /api/search?q=...; geo is what the geocoder does when it is called
ApiSearch(q, geo) ==
    /\ resp = Idle
    /\ resp' = IF q.text = <<>>
               THEN Answered("/api/search", "", RawAbsent, 400,
                             [error |-> "Search query is required"])
               ELSE SearchAnswer(MapSearchQueryCall(store, rng, q.text, geo).value)
    /\ rng' = IF q.text = <<>> THEN rng
              ELSE MapSearchQueryCall(store, rng, q.text, geo).st
    /\ search' = IF q.text = <<>> THEN [q |-> q, sent |-> <<>>, geo |-> GeoNothing]
                 ELSE [q |-> q, sent |-> <<Qualify(q.text)>>, geo |-> geo]
    /\ UNCHANGED <<store, threads, hashseed, wardFile, today, wards, model, ensemble,
                   historical_data, run, first>>

\* GET /api/wards: get_wards finds self.wards set by the constructor, does
\* not load again and returns it
ApiWards ==
    /\ resp = Idle
    /\ resp' = Answered("/api/wards", "", RawAbsent, 200,
                        [type |-> "FeatureCollection", features |-> store])
    /\ UNCHANGED <<store, search, threads, hashseed, wardFile, today, wards, model,
                   ensemble, historical_data, rng, run, first>>

\* the caller takes the result; the next call can begin
Return ==
    /\ resp # Idle
    /\ resp' = Idle
    /\ search' = NoSearch
    /\ UNCHANGED <<store, threads, hashseed, wardFile, today, wards, model, ensemble,
                   historical_data, rng, run, first>>

Next ==
    \/ \E hour \in CallHours : Predict(hour)
    \/ \E w \in QueryWardIds, d \in DaysInputs : GetHistoricalSafetyData(w, d)
    \/ \E w \in QueryWardIds, n \in FutureInputs, now \in NowHours :
           PredictFutureRisk(w, n, now)
    \/ \E w \in QueryWardIds, hour \in CallHours : GetSafetyTips(w, hour)
    \/ \E raw \in RawHours : ApiPredict(raw)
    \/ \E w \in QueryWardIds, raw \in RawDays : ApiHistorical(w, raw)
    \/ \E w \in QueryWardIds, raw \in RawFutureHours, now \in NowHours :
           ApiFuture(w, raw, now)
    \/ \E w \in QueryWardIds, raw \in RawHours, now \in NowHours : ApiTips(w, raw, now)
    \/ \E point \in ProbePoints : MapCoordinatesToWard(point)
    \/ \E q \in QueryInputs, geo \in {GeoRaises, GeoNothing} \cup ProbePoints :
           ApiSearch(q, geo)
    \/ ApiWards
    \/ Return

Spec == Init /\ [][Next]_vars

(***************************************************************************)
(* The same calls with the first answer of predict kept for comparison,    *)
(* and the process restarted.                                              *)
(***************************************************************************)
MaxProbeHour == 1     \* predict is watched for the hours 0 .. MaxProbeHour
ProbeHours == MinHour .. MaxProbeHour
ProbeWardIds == {"W1", "ZZ"}

\* another call was made after the first predict
Later(f) == IF f.set THEN [f EXCEPT !.later = TRUE] ELSE f

ObservedPredict(hour) ==
    /\ PredictStep(hour)
    /\ first' = IF first.set THEN first
                ELSE [set |-> TRUE, hour |-> hour, run |-> run, later |-> FALSE,
                      value |-> resp'.value]

ObservedHistorical(ward_id, days) ==
    GetHistoricalStep(ward_id, days) /\ first' = Later(first)

ObservedFuture(ward_id, future_hours, nowHour) ==
    PredictFutureStep(ward_id, future_hours, nowHour) /\ first' = Later(first)

ObservedTips(ward_id, hour) ==
    GetSafetyTipsStep(ward_id, hour) /\ first' = Later(first)

\* the process ends and a new one is started on the same files, the same day
Restart(seed, ens, st, g) ==
    /\ resp = Idle
    /\ run < MaxRuns
    /\ Construct(seed, wardFile, today, ens, st)
    /\ store' = LoadWards(wardFile, g)
    /\ run' = run + 1
    /\ UNCHANGED <<resp, first, search, threads>>

RunsNext ==
    \/ \E hour \in ProbeHours : ObservedPredict(hour)
    \/ \E w \in ProbeWardIds, d \in {DefaultDays} : ObservedHistorical(w, d)
    \/ \E w \in ProbeWardIds, n \in {MaxFutureHours}, now \in NowHours :
           ObservedFuture(w, n, now)
    \/ \E w \in ProbeWardIds, hour \in ProbeHours : ObservedTips(w, hour)
    \/ \E seed \in 0 .. (MaxSeed - 1), ens \in 0 .. MaxEnsemble,
          st \in 0 .. (MaxRngInit - 1), g \in 0 .. (MaxGeo - 1) :
              Restart(seed, ens, st, g)
    \/ Return

RunsSpec == Init /\ [][RunsNext]_vars

(***************************************************************************)
(* Properties                                                              *)
(***************************************************************************)
\* the last call was predict, directly or through /api/predict, and it
\* returned per-ward predictions
PredictionsReturned ==
    /\ resp.op \in {"predict", "/api/predict"}
    /\ "wards" \in DOMAIN resp.value

\* the score predict computed for the i-th ward of the collection
ScoreOf(hour, i) == SafetyScore(hour, WardModifier(hashseed, wards[i].ward_id))

\* the band of the thresholds a score lies in, in thousandths
BandOfThousandths(t) ==
    IF t >= 700 THEN "green" ELSE IF t >= 400 THEN "yellow" ELSE "red"

C2_PredictIdempotent ==
    (resp.op = "predict" /\ first.set /\ first.run = run /\ resp.arg = first.hour)
        => resp.value = first.value

\* predict returned predictions a second time for the hour of its first
\* call, in the same process, after calls of other methods
C2_Witness ==
    /\ resp.op = "predict"
    /\ first.set /\ first.later /\ first.run = run
    /\ resp.arg = first.hour
    /\ "wards" \in DOMAIN resp.value
    /\ resp.value = first.value

\* C3: a process started later on the same ward collection gives, for the
\* same hour, the predict result the earlier process gave.
C3_StableAcrossProcesses ==
    (resp.op = "predict" /\ first.set /\ resp.arg = first.hour)
        => resp.value = first.value

\* the band of the thresholds a score lies in
BandOfScore(score) ==
    IF score < YellowMin THEN "red" ELSE IF score < GreenMin THEN "yellow" ELSE "green"

\* the score the historical generator computed for a ward, date and hour
HistScoreOf(ward_id, date, hour) ==
    Min(Max(HourFactor(hour) + DayFactor(hashseed, date, ward_id), 0), ONE)

\* C4: a score of at least 0.7 is green, one of at least 0.4 and below 0.7 is
\* yellow, anything else is red, both in predict and in every record of the
\* historical series; 0.7 itself is green and 0.4 itself is yellow.
C4_Thresholds ==
    /\ (PredictionsReturned /\ Len(resp.value.wards) = Len(wards)) =>
           \A i \in 1 .. Len(wards) :
               resp.value.wards[i].safety_level
                   = BandOfScore(ScoreOf(resp.value.hour, i))
    /\ resp = Idle =>
           \A w \in DOMAIN historical_data :
               \A d \in 1 .. Len(historical_data[w]) :
                   \A h \in 1 .. 24 :
                       historical_data[w][d].hourly_data[h].safety_level
                           = BandOfScore(HistScoreOf(w, historical_data[w][d].date, h - 1))

\* predict classified a score of exactly 0.7, and the series holds a record
\* whose score is exactly 0.4
C4_Witness ==
    /\ PredictionsReturned
    /\ \E i \in 1 .. Len(wards) :
          /\ ScoreOf(resp.value.hour, i) = GreenMin
          /\ resp.value.wards[i].safety_level = "green"
    /\ \E w \in DOMAIN historical_data :
          \E d \in 1 .. 7 :
              \E h \in 1 .. 24 :
                  /\ HistScoreOf(w, historical_data[w][d].date, h - 1) = YellowMin
                  /\ historical_data[w][d].hourly_data[h].safety_level = "yellow"

\* C5: the reported crime probability is round(1 - s, 3), and 1 minus the
\* reported probability lies in the band of the reported level.
C5_RoundTrip ==
    (PredictionsReturned /\ resp.value.hour \in Hours
        /\ Len(resp.value.wards) = Len(wards)) =>
        \A i \in 1 .. Len(wards) :
            LET entry == resp.value.wards[i]
                score == ScoreOf(resp.value.hour, i)
            IN  /\ 2 * Abs(entry.crime_probability * (ONE \div 1000) - (ONE - score))
                       <= ONE \div 1000
                /\ BandOfThousandths(1000 - entry.crime_probability)
                       = entry.safety_level

\* C6: an hour outside 0..23, or one that is not an integer, is rejected:
\* predict called directly does not return, /api/predict and /api/tips
\* answer 400, and no per-ward prediction or tips are produced.
C6_HourValidated ==
    /\ (resp.op = "predict" /\ resp.arg \notin Hours) =>
           (resp.raised # "none" /\ "wards" \notin DOMAIN resp.value)
    /\ (resp.op \in {"/api/predict", "/api/tips"}
          /\ (resp.raw.kind = "text"
              \/ (resp.raw.kind = "int" /\ resp.raw.int \notin Hours))) =>
           /\ resp.status = 400
           /\ "wards" \notin DOMAIN resp.value
           /\ "general_tips" \notin DOMAIN resp.value

\* the last call asked for a ward's history, directly or through
\* /api/historical with a well-formed `days`
HistoryAsked ==
    \/ resp.op = "get_historical_safety_data"
    \/ (resp.op = "/api/historical" /\ resp.raw.kind # "text")

DaysAsked ==
    IF resp.op = "get_historical_safety_data" THEN resp.arg
    ELSE ParseInt(resp.raw, DefaultDays).val

\* C7: for a known ward, days > 30 returns exactly 30 daily entries, and
\* 1 <= days <= 30 returns exactly the last `days` entries of the ward's
\* series; days_analyzed is the number of entries returned.
C7_LastDays ==
    (HistoryAsked /\ resp.ward \in DOMAIN historical_data /\ DaysAsked >= 1) =>
        /\ "daily_data" \in DOMAIN resp.value
        /\ LET series == historical_data[resp.ward]
               data == resp.value.daily_data
           IN  /\ DaysAsked > 30 => Len(data) = 30
               /\ DaysAsked <= 30 =>
                      /\ Len(data) = DaysAsked
                      /\ \A k \in 1 .. DaysAsked :
                             data[k] = series[Len(series) - DaysAsked + k]
               /\ resp.value.days_analyzed = Len(data)

\* more than 30 days of a known ward's history were asked for and returned
C7_Witness ==
    /\ resp.op = "get_historical_safety_data"
    /\ resp.ward \in DOMAIN historical_data
    /\ resp.arg > 30
    /\ "daily_data" \in DOMAIN resp.value
    /\ Len(resp.value.daily_data) = 30

\* C8: for a known ward, days = 0 returns an empty series and period
\* statistics that are all zero; nothing is raised and /api/historical does
\* not answer 500.
C8_ZeroDays ==
    /\ (resp.op = "get_historical_safety_data" /\ resp.arg = 0
          /\ resp.ward \in DOMAIN historical_data) =>
           /\ resp.raised = "none"
           /\ "daily_data" \in DOMAIN resp.value
           /\ resp.value.daily_data = <<>>
           /\ \A p \in DOMAIN resp.value.period_stats :
                  /\ resp.value.period_stats[p].green_pct = 0
                  /\ resp.value.period_stats[p].yellow_pct = 0
                  /\ resp.value.period_stats[p].red_pct = 0
                  /\ resp.value.period_stats[p].dominant_percentage = 0
    /\ (resp.op = "/api/historical" /\ resp.raw = RawInt(0)
          /\ resp.ward \in DOMAIN historical_data) => resp.status # 500

\* C9: /api/historical and /api/future answer 400 when `days` or `hours` is
\* not an integer or is negative, and return no historical or future data.
C9_InvalidRejected ==
    (resp.op \in {"/api/historical", "/api/future"}
        /\ (resp.raw.kind = "text" \/ (resp.raw.kind = "int" /\ resp.raw.int < 0))) =>
        /\ resp.status = 400
        /\ "daily_data" \notin DOMAIN resp.value
        /\ "predictions" \notin DOMAIN resp.value

(***************************************************************************)
(* The period statistics as a function of the three counts                 *)
(***************************************************************************)
MaxCount == 4         \* counts 0 .. MaxCount per level

\* counts of one period, before its statistics are computed
Counted(g, y, r) ==
    [op |-> "period_counts", ward |-> "", arg |-> 0, raw |-> RawAbsent,
     status |-> 0, raised |-> "none",
     value |-> [green_count |-> g, yellow_count |-> y, red_count |-> r]]

StatsInit ==
    /\ hashseed = 0
    /\ wardFile = [exists |-> TRUE, features |-> FileFeatures]
    /\ today = Today0
    /\ ensemble = 1
    /\ model = TRUE
    /\ rng = 0
    /\ wards = LoadWardData(wardFile)
    /\ historical_data = GenerateHistoricalData(hashseed, today, wards)
    /\ run = 0
    /\ first = NoFirst
    /\ store = <<>>
    /\ search = NoSearch
    /\ threads = <<>>
    /\ \E g \in 0 .. MaxCount, y \in 0 .. MaxCount, r \in 0 .. MaxCount :
          /\ g + y + r > 0
          /\ resp = Counted(g, y, r)

\* the body of the loop over time_periods after the counting, with
\* total_hours equal to the number of records counted
ComputePeriodStat ==
    /\ resp.op = "period_counts"
    /\ resp' = [resp EXCEPT
                  !.op = "period_stat",
                  !.value = [green_count |-> resp.value.green_count,
                             yellow_count |-> resp.value.yellow_count,
                             red_count |-> resp.value.red_count,
                             stat |-> PeriodStat(resp.value.green_count,
                                                 resp.value.yellow_count,
                                                 resp.value.red_count,
                                                 resp.value.green_count
                                                   + resp.value.yellow_count
                                                   + resp.value.red_count)]]
    /\ UNCHANGED <<store, search, threads, hashseed, wardFile, today, wards, model, ensemble,
                   historical_data, rng, run, first>>

StatsNext == ComputePeriodStat

StatsSpec == StatsInit /\ [][StatsNext]_vars

\* C10: the dominant level of a period has the highest of the three counts;
\* among equal highest counts green is preferred to yellow and yellow to red;
\* dominant_percentage is the percentage reported for that same level.
C10_Dominant ==
    resp.op = "period_stat" =>
        LET v == resp.value
            count(level) == IF level = "green" THEN v.green_count
                            ELSE IF level = "yellow" THEN v.yellow_count
                            ELSE v.red_count
            pct(level) == IF level = "green" THEN v.stat.green_pct
                          ELSE IF level = "yellow" THEN v.stat.yellow_pct
                          ELSE v.stat.red_pct
            dominant == v.stat.dominant_safety
        IN  /\ dominant \in Levels
            /\ \A level \in Levels : count(dominant) >= count(level)
            /\ dominant = "yellow" => count("green") < count("yellow")
            /\ dominant = "red" =>
                   (count("green") < count("red") /\ count("yellow") < count("red"))
            /\ v.stat.dominant_percentage = pct(dominant)

\* statistics were computed for a period whose green and yellow counts are
\* equal and highest
C10_Witness ==
    /\ resp.op = "period_stat"
    /\ resp.value.green_count = resp.value.yellow_count
    /\ resp.value.green_count > resp.value.red_count
    /\ resp.value.stat.dominant_safety = "green"

(***************************************************************************)
(* Unknown wards and wards without a centre                                *)
(***************************************************************************)
\* the ward ids of the predictor's collection
KnownWardIds == {wards[i].ward_id : i \in 1 .. Len(wards)}

\* the value carries none of the data of a successful answer
NoData(value) ==
    /\ "error" \in DOMAIN value
    /\ DOMAIN value \cap {"daily_data", "period_stats", "predictions",
                          "general_tips", "specific_tips", "time_tips"} = {}

\* C11: for a ward id that is not in the predictor's collection,
\* get_historical_safety_data, predict_future_risk and get_safety_tips return
\* an error result without historical, prediction or tips data, and
\* /api/historical, /api/future and /api/tips answer it with status 404.
C11_UnknownWardNotFound ==
    /\ (resp.op \in {"get_historical_safety_data", "predict_future_risk",
                     "get_safety_tips"}
          /\ resp.ward \notin KnownWardIds) =>
           /\ resp.raised = "none"
           /\ NoData(resp.value)
    /\ (resp.op \in {"/api/historical", "/api/future", "/api/tips"}
          /\ resp.ward \notin KnownWardIds
          /\ resp.status # 400) =>
           /\ NoData(resp.value)
           /\ resp.status = 404

\* the ward's boundary has a vertex the centre can be computed from
HasCentroid(feature) ==
    \E i \in 1 .. Len(feature.coords) : Len(feature.coords[i]) >= 2

\* C12: predict_future_risk fails for a known ward whose boundary has no
\* usable vertex: it returns an error and no predictions computed from
\* substituted coordinates.
C12_NoCentroidNotFound ==
    (resp.op = "predict_future_risk"
        /\ resp.ward \in KnownWardIds
        /\ ~HasCentroid(wards[FindWard(wards, resp.ward)])) =>
        NoData(resp.value)

(***************************************************************************)
(* Tips, the night hours, risk factors and the order of the predictions    *)
(***************************************************************************)
\* get_safety_tips was called, directly or through /api/tips, with an hour
\* of the day given
TipsAsked ==
    \/ resp.op = "get_safety_tips" /\ resp.arg \in Hours
    \/ resp.op = "/api/tips" /\ resp.raw.kind = "int" /\ resp.raw.int \in Hours

TipsHour == IF resp.op = "get_safety_tips" THEN resp.arg ELSE resp.raw.int

\* the level a predict result reports for the ward
LevelIn(value, ward_id) == value.wards[FindPrediction(value, ward_id)].safety_level

\* the level predict(hour) reports for the ward in the present state
PredictedLevel(ward_id, hour) ==
    LevelIn(PredictCall(hashseed, rng, wards, hour).value, ward_id)

Range(q) == {q[i] : i \in 1 .. Len(q)}

\* C16: for a known ward and an hour 0..23, whatever was called before, the
\* get_safety_tips result carries the four general tips verbatim, at least
\* one tip of the pool of the ward's level among specific_tips, and the level
\* predict(hour) reports for the ward.
C16_TipsComplete ==
    (TipsAsked /\ resp.ward \in KnownWardIds) =>
        /\ "general_tips" \in DOMAIN resp.value
        /\ Len(resp.value.general_tips) = 4
        /\ resp.value.general_tips = GeneralTips
        /\ resp.value.safety_level \in Levels
        /\ Range(resp.value.specific_tips)
               \cap Range(LevelTips(resp.value.safety_level)) # {}
        /\ resp.value.safety_level = PredictedLevel(resp.ward, TipsHour)

\* tips were returned for a known ward whose level is not green, with tips
\* of its risk factors after the tips of the level
C16_Witness ==
    /\ TipsAsked
    /\ resp.ward \in KnownWardIds
    /\ "specific_tips" \in DOMAIN resp.value
    /\ resp.value.safety_level # "green"
    /\ Len(resp.value.specific_tips) > Len(LevelTips(resp.value.safety_level))

\* C18: for the hours 23, 0, 1, 2, 3, 4 predict reports green for no ward,
\* whichever of the twenty jitters the ward has, and predict(2) gives every
\* ward a score of at most 0.49.
C18_NightNeverGreen ==
    (PredictionsReturned /\ resp.value.hour \in {23, 0, 1, 2, 3, 4}) =>
        \A i \in 1 .. Len(resp.value.wards) :
            /\ resp.value.wards[i].safety_level # "green"
            /\ ScoreOf(resp.value.hour, i) < GreenMin
            /\ \A k \in 0 .. (ModifierMod - 1) :
                   Classify(SafetyScore(resp.value.hour, k * (ONE \div 100))) # "green"
            /\ resp.value.hour = 2 =>
                   /\ ScoreOf(2, i) <= 49 * (ONE \div 100)
                   /\ resp.value.wards[i].crime_probability >= 510

\* predict(2) returned and one ward is yellow
C18_Witness ==
    /\ PredictionsReturned
    /\ resp.value.hour = 2
    /\ \E i \in 1 .. Len(resp.value.wards) :
           resp.value.wards[i].safety_level = "yellow"

\* between one and three factors, no factor twice, all from the catalog
FactorsWellFormed(f) ==
    /\ Len(f) \in 1 .. 3
    /\ \A i, j \in 1 .. Len(f) : i # j => f[i] # f[j]
    /\ Range(f) \subseteq Range(AllFactors)

\* the first predict of the behaviour reported other factors for the ward
\* and the hour
DiffersFromFirst(ward_id, hour, f) ==
    /\ first.set
    /\ first.hour = hour
    /\ "wards" \in DOMAIN first.value
    /\ \E j \in 1 .. Len(first.value.wards) :
           /\ first.value.wards[j].ward_id = ward_id
           /\ first.value.wards[j].risk_factors # f

\* C19: every risk_factors list of predict and predict_future_risk has one to
\* three pairwise distinct factors of the catalog of eight, and is the list
\* any other call reported for the same ward id and hour.
C19_RiskFactors ==
    /\ (resp.op = "predict" /\ "wards" \in DOMAIN resp.value) =>
           \A i \in 1 .. Len(resp.value.wards) :
               /\ FactorsWellFormed(resp.value.wards[i].risk_factors)
               /\ ~DiffersFromFirst(resp.value.wards[i].ward_id, resp.arg,
                                    resp.value.wards[i].risk_factors)
    /\ (resp.op = "predict_future_risk" /\ "predictions" \in DOMAIN resp.value) =>
           \A k \in 1 .. Len(resp.value.predictions) :
               /\ FactorsWellFormed(resp.value.predictions[k].risk_factors)
               /\ ~DiffersFromFirst(resp.ward, resp.value.predictions[k].hour,
                                    resp.value.predictions[k].risk_factors)

\* the hour /api/predict or predict was asked for
AskedHour ==
    IF resp.op = "predict" THEN resp.arg ELSE ParseInt(resp.raw, DefaultHour).val

\* C20: predict(hour) returns one result per ward of the collection, in the
\* order of the collection, under the hour asked for; for an empty
\* collection it returns an error and no list of predictions.
C20_OnePerWard ==
    (resp.op = "predict" \/ (resp.op = "/api/predict" /\ resp.status = 200)) =>
        IF Len(wards) = 0
        THEN "error" \in DOMAIN resp.value /\ "wards" \notin DOMAIN resp.value
        ELSE /\ "wards" \in DOMAIN resp.value
             /\ resp.value.hour = AskedHour
             /\ Len(resp.value.wards) = Len(wards)
             /\ \A i \in 1 .. Len(wards) :
                    /\ resp.value.wards[i].ward_id = wards[i].ward_id
                    /\ resp.value.wards[i].name = wards[i].name

\* predict returned a prediction for each of the 24 placeholder wards
C20_Witness ==
    /\ resp.op = "predict"
    /\ "wards" \in DOMAIN resp.value
    /\ Len(resp.value.wards) = NumPlaceholder
    /\ resp.value.wards[NumPlaceholder].ward_id = "W24"

(***************************************************************************)
(* The ward store: nearest ward and search                                 *)
(***************************************************************************)
\* the centre of the i-th ward of the store and its distance to the place
\* looked up
StoreCenter(i) == WardCenter(store[i].coords)
StoreDistance(i) == Geodesic(search.geo, StoreCenter(i))
WithCenter == {i \in 1 .. Len(store) : StoreCenter(i).ok}

\* C13: map_coordinates_to_ward returns the ward whose centre is nearest to
\* the point, the first of the collection among several at that distance; it
\* returns none exactly when the smallest distance exceeds 30 km (none for a
\* point 1000 km away, a ward for a point at a ward's centre); a ward without
\* usable vertices is never returned.
C13_NearestWard ==
    (resp.op = "map_coordinates_to_ward") =>
        /\ IF \E i \in WithCenter : StoreDistance(i) <= 30000
           THEN \E k \in WithCenter :
                   /\ \A j \in WithCenter : StoreDistance(k) <= StoreDistance(j)
                   /\ \A j \in WithCenter : j < k => StoreDistance(k) < StoreDistance(j)
                   /\ IsWard(resp.value)
                   /\ resp.value.ward_id = store[k].ward_id
                   /\ resp.value.name = store[k].name
                   /\ resp.value.latitude = StoreCenter(k).lat
                   /\ resp.value.longitude = StoreCenter(k).lng
                   /\ resp.value.distance_km = RoundKm(StoreDistance(k))
           ELSE resp.value = NoWard
        /\ search.geo = GeoAt(286139, 772090) => resp.value = NoWard
        /\ (\E i \in WithCenter : StoreDistance(i) = 0) =>
               IsWard(resp.value) /\ resp.value.distance_km = 0

\* a ward was returned while a later ward of the collection is at the same
\* distance, and the collection has a ward without usable vertices
C13_Witness ==
    /\ resp.op = "map_coordinates_to_ward"
    /\ IsWard(resp.value)
    /\ \E j, k \in WithCenter :
           /\ j < k
           /\ resp.value.ward_id = store[j].ward_id
           /\ StoreDistance(j) = StoreDistance(k)
    /\ \E i \in 1 .. Len(store) : i \notin WithCenter

\* the geocoder was called for the search and raised
GeocodingFailed ==
    /\ resp.op = "/api/search"
    /\ search.sent # <<>>
    /\ search.geo.kind = "raises"

\* C14: when the geocoding call fails, map_search_query_to_ward returns
\* none and /api/search answers 404: no ward with made-up coordinates, no 500.
C14_GeocodingFailsClosed ==
    GeocodingFailed =>
        /\ resp.status = 404
        /\ ~IsWard(resp.value)

\* the query holds the letters m-u-m-b-a-i in a row, in either case
NamesCity(q) ==
    \E i \in 0 .. (Len(q) - 6) :
        \A k \in 1 .. 6 :
            q[i + k] \in {<<"m", "u", "m", "b", "a", "i">>[k],
                          <<"M", "U", "M", "B", "A", "I">>[k]}

\* some ward of the store has its centre within 30 km of the place found
WardInReach == \E i \in WithCenter : StoreDistance(i) <= 30000

\* C15: /api/search answers 400 for a missing or empty q and does not call
\* the geocoder; otherwise it sends the query, with ", Mumbai, India"
\* appended unless it names the city; it answers 404 when the geocoder finds
\* nothing, when the place is farther than 30 km from the city centre and
\* when no ward is within reach; every answer with status 200 carries a
\* ward whose centre is within 30 km of the geocoded place.
C15_Search ==
    (resp.op = "/api/search") =>
        /\ search.q.text = <<>> => resp.status = 400 /\ search.sent = <<>>
        /\ search.q.text # <<>> =>
               /\ resp.status # 400
               /\ Len(search.sent) = 1
               /\ search.sent[1] =
                      IF NamesCity(search.q.text) THEN search.q.text
                      ELSE search.q.text \o <<",", " ", "M", "u", "m", "b", "a", "i",
                                              ",", " ", "I", "n", "d", "i", "a">>
        /\ (search.q.text # <<>>
              /\ \/ search.geo.kind = "none"
                 \/ /\ search.geo.kind = "location"
                    /\ \/ Geodesic(GeoAt(BaseLat, BaseLng), search.geo) > 30000
                       \/ ~WardInReach) => resp.status = 404
        /\ resp.status = 200 =>
               /\ search.geo.kind = "location"
               /\ resp.value.search_lat = search.geo.lat
               /\ resp.value.search_lng = search.geo.lng
               /\ \E i \in WithCenter :
                      /\ store[i].ward_id = resp.value.ward_id
                      /\ StoreDistance(i) <= 30000

(***************************************************************************)
(* Requests served in threads (app.run serves each request in a thread of  *)
(* its own).  Each thread runs predict(hour); the three calls that         *)
(* _get_risk_factors makes on the module-global generator are the steps    *)
(* another thread can come between.                                        *)
(***************************************************************************)
MaxThreads == 2       \* threads 1 .. MaxThreads

\* a thread about to enter the loop of predict(hour)
NewThread(hour) == [hour |-> hour, pc |-> "seed", i |-> 1, n |-> 0, acc |-> <<>>]

ThreadsInit ==
    /\ hashseed \in 0 .. (MaxSeed - 1)
    /\ wardFile = [exists |-> TRUE, features |-> FileFeatures]
    /\ today = Today0
    /\ ensemble = 0
    /\ model = FALSE
    /\ rng = 0
    /\ wards = LoadWardData(wardFile)
    /\ historical_data = GenerateHistoricalData(hashseed, today, wards)
    /\ run = 0
    /\ resp = Idle
    /\ first = NoFirst
    /\ store = LoadWards(wardFile, 0)
    /\ search = NoSearch
    /\ threads \in [1 .. MaxThreads -> {NewThread(hour) : hour \in ProbeHours}]

\* seed = hash(f"{ward_id}_{hour}"); random.seed(seed).  The first pass
\* comes after "if not self.model: self._load_model()".
ThreadSeed(t) ==
    /\ threads[t].pc = "seed"
    /\ rng' = RandomSeed(rng, PyHash(hashseed,
                  TextWardHour(wards[threads[t].i].ward_id, threads[t].hour)))
    /\ model' = TRUE
    /\ threads' = [threads EXCEPT ![t].pc = "randint"]
    /\ UNCHANGED <<store, search, hashseed, wardFile, today, wards, ensemble,
                   historical_data, run, resp, first>>

\* num_factors = random.randint(1, 3)
ThreadRandInt(t) ==
    /\ threads[t].pc = "randint"
    /\ rng' = RandInt(rng, 1, 3).st
    /\ threads' = [threads EXCEPT ![t].pc = "sample",
                                  ![t].n = RandInt(rng, 1, 3).val]
    /\ UNCHANGED <<store, search, hashseed, wardFile, today, wards, model, ensemble,
                   historical_data, run, resp, first>>

\* factors = random.sample(all_factors, num_factors); the prediction of the
\* ward is appended and the loop goes on to the next ward
ThreadSample(t) ==
    /\ threads[t].pc = "sample"
    /\ rng' = RandomSample(rng, AllFactors, threads[t].n).st
    /\ threads' = [threads EXCEPT
                     ![t].pc = IF threads[t].i = Len(wards) THEN "done" ELSE "seed",
                     ![t].i = threads[t].i + 1,
                     ![t].acc = Append(threads[t].acc,
                                       RandomSample(rng, AllFactors, threads[t].n).val)]
    /\ UNCHANGED <<store, search, hashseed, wardFile, today, wards, model, ensemble,
                   historical_data, run, resp, first>>

ThreadsNext ==
    \E t \in 1 .. MaxThreads : ThreadSeed(t) \/ ThreadRandInt(t) \/ ThreadSample(t)

ThreadsSpec == ThreadsInit /\ [][ThreadsNext]_vars

\* the risk factors predict(hour) gives the wards when nothing runs beside it
FactorsAlone(hour) ==
    [i \in 1 .. Len(wards) |->
        PredictCall(hashseed, 0, wards, hour).value.wards[i].risk_factors]

\* C17: requests write no state that they share, so a predict call whose
\* steps interleave with those of another request computes, for every ward,
\* the risk factors it computes when run alone: no request observes what
\* another request wrote.
C17_ThreadSafe ==
    \A t \in 1 .. MaxThreads :
        threads[t].pc = "done" => threads[t].acc = FactorsAlone(threads[t].hour)

(***************************************************************************)
(* The base curve                                                          *)
(***************************************************************************)
\* the offset table as the hours of each bucket are written out in ranges
TableOffset(hour) ==
    IF hour \in 10 .. 15 THEN 8 * (ONE \div 10)
    ELSE IF hour \in (7 .. 9) \cup (16 .. 18) THEN 7 * (ONE \div 10)
    ELSE IF hour \in {19, 20, 6} THEN 5 * (ONE \div 10)
    ELSE IF hour \in {21, 22, 5} THEN 3 * (ONE \div 10)
    ELSE IF hour \in {23} \cup (0 .. 4) THEN 2 * (ONE \div 10)
    ELSE -1

\* the names whose list holds the hour
PatternsOf(hour) ==
    {i \in 1 .. Len(PatternNames) : hour \in TimePatterns(PatternNames[i])}

\* clamp(x, 0, 1)
Clamp01(x) == Min(Max(x, 0), ONE)

\* C21: the five hour lists are pairwise disjoint and cover 0..23; predict
\* gives every hour the offset of the one list that holds it (0.80, 0.70,
\* 0.50, 0.30, 0.20); the historical generator gives every hour the same
\* offset, as seen in the records it produced; the base value lies in [0, 1];
\* predict(12) for a ward of jitter 0 reports green and probability 0.2.
C21_BaseCurve ==
    /\ \A h \in Hours :
          /\ Cardinality(PatternsOf(h)) = 1
          /\ BucketOffset(h) = TableOffset(h)
          /\ HourFactor(h) = BucketOffset(h)
          /\ BaseSafety(h) \in 0 .. ONE
    /\ (PredictionsReturned /\ resp.value.hour \in Hours
          /\ Len(resp.value.wards) = Len(wards)) =>
           \A i \in 1 .. Len(wards) :
               /\ resp.value.wards[i].crime_probability
                     = Round3(ONE - Clamp01(TableOffset(resp.value.hour)
                                              + TenthSin(resp.value.hour)
                                              + WardModifier(hashseed, wards[i].ward_id)
                                              + FloatErr(resp.value.hour,
                                                         WardModifier(hashseed,
                                                                      wards[i].ward_id))))
               /\ (resp.value.hour = 12 /\ WardModifier(hashseed, wards[i].ward_id) = 0) =>
                      /\ BaseSafety(12) = 8 * (ONE \div 10)
                      /\ resp.value.wards[i].safety_level = "green"
                      /\ resp.value.wards[i].crime_probability = 200
    /\ (HistoryAsked /\ "daily_data" \in DOMAIN resp.value) =>
           \A d \in 1 .. Len(resp.value.daily_data) :
               \A h \in 1 .. 24 :
                   resp.value.daily_data[d].hourly_data[h].crime_probability
                       = Round3(ONE - Clamp01(TableOffset(h - 1)
                                                + DayFactor(hashseed,
                                                            resp.value.daily_data[d].date,
                                                            resp.ward)))

\* predict(12) answered for a collection with a ward of jitter 0
C21_Witness ==
    /\ PredictionsReturned
    /\ resp.value.hour = 12
    /\ \E i \in 1 .. Len(wards) :
          /\ WardModifier(hashseed, wards[i].ward_id) = 0
          /\ resp.value.wards[i].safety_level = "green"
          /\ resp.value.wards[i].crime_probability = 200

(***************************************************************************)
(* The composition of the tips                                             *)
(***************************************************************************)
\* the four times of day and the hours of each
TimesOfDay == {0 .. 5, 6 .. 11, 12 .. 17, 18 .. 23}

\* the pool of a time of day: what its first hour is given
PoolOf(time) == TimeTips(CHOOSE h \in time : \A k \in time : h <= k)

\* the factors predict reports for the ward at the hour
ReportedFactors(ward_id, hour) == GetRiskFactors(hashseed, rng, hour, ward_id).factors

\* C22: for a known ward and an hour 0..23, time_tips is the pool of the one
\* time of day that holds the hour (0-5, 6-11, 12-17, 18-23) and is not
\* empty; specific_tips is the tips of the ward's level followed by the tips
\* of each reported risk factor in the order of risk_factors, and holds no
\* tip of a factor that was not reported.
C22_TipsComposition ==
    (TipsAsked /\ resp.ward \in KnownWardIds /\ "time_tips" \in DOMAIN resp.value) =>
        LET level == LevelTips(resp.value.safety_level)
            factors == ReportedFactors(resp.ward, TipsHour)
            specific == resp.value.specific_tips
        IN  /\ Cardinality({time \in TimesOfDay : TipsHour \in time}) = 1
            /\ \A time \in TimesOfDay :
                   /\ TipsHour \in time => resp.value.time_tips = PoolOf(time)
                   /\ TipsHour \notin time => resp.value.time_tips # PoolOf(time)
            /\ resp.value.time_tips # <<>>
            /\ Len(specific) = Len(level) + 3 * Len(factors)
            /\ SubSeq(specific, 1, Len(level)) = level
            /\ \A k \in 1 .. Len(factors) :
                   SubSeq(specific, Len(level) + 3 * k - 2, Len(level) + 3 * k)
                       = FactorTips(factors[k])
            /\ \A i \in 1 .. Len(AllFactors) :
                   AllFactors[i] \notin Range(factors) =>
                       Range(FactorTips(AllFactors[i])) \cap Range(specific) = {}

\* tips were returned for hour 6 and a ward with at least two risk factors
C22_Witness ==
    /\ TipsAsked
    /\ TipsHour = 6
    /\ resp.ward \in KnownWardIds
    /\ "specific_tips" \in DOMAIN resp.value
    /\ Len(ReportedFactors(resp.ward, TipsHour)) >= 2
    /\ resp.value.time_tips = PoolOf(6 .. 11)

(***************************************************************************)
(* The historical series after startup                                     *)
(***************************************************************************)
\* every ward of the collection has its 30 days, oldest first, from
\* today - 30 to today - 1, each with the hours 0 .. 23 in order
SeriesShape ==
    /\ DOMAIN historical_data = KnownWardIds
    /\ \A w \in KnownWardIds :
          /\ Len(historical_data[w]) = 30
          /\ \A k \in 1 .. 30 :
                /\ historical_data[w][k].date = today - 31 + k
                /\ Len(historical_data[w][k].hourly_data) = 24
                /\ \A h \in 1 .. 24 : historical_data[w][k].hourly_data[h].hour = h - 1
          /\ \A k \in 1 .. 29 : historical_data[w][k].date < historical_data[w][k + 1].date

\* a step leaves the series and the collection as they were
SeriesKept == historical_data' = historical_data /\ wards' = wards

\* C23: after startup the series holds, for every ward of the collection,
\* exactly 30 daily records in ascending date order, today - 30 to
\* today - 1, each with 24 hourly records for the hours 0 .. 23 in order; no
\* call of predict, get_historical_safety_data, predict_future_risk or
\* get_safety_tips, made directly or by a handler, changes the series or the
\* collection.
C23_SeriesFixed == SeriesShape /\ [][SeriesKept]_vars

\* predict has run in a process whose models failed to initialise, setting
\* self.model, and the series of the 24 placeholder wards is as it was built
C23_Witness ==
    /\ PredictionsReturned
    /\ ensemble = 0 /\ model
    /\ Len(wards) = NumPlaceholder
    /\ \A w \in KnownWardIds :
          historical_data[w] = DailyData(hashseed, today, w)

(***************************************************************************)
(* The period statistics of a returned history                             *)
(***************************************************************************)
\* the four periods with their hours written as ranges
RangeOfPeriod ==
    [morning |-> 6 .. 11, afternoon |-> 12 .. 17, evening |-> 18 .. 21,
     night |-> (22 .. 23) \cup (0 .. 5)]

\* the share of count in total, in tenths of a percent, is pct after rounding
RoundedShare(pct, count, total) == 2 * Abs(pct * total - 1000 * count) <= total

\* C24: the hours of the four periods (morning 6-11, afternoon 12-17,
\* evening 18-21, night 22-5) partition 0..23; for a known ward and days in
\* 1..30, in every period the green, yellow and red records of the returned
\* days number (hours of the period) x (days returned), each percentage is
\* the rounded share of its count and lies in [0, 100], and the three
\* percentages sum to 100 within a tenth.
C24_PeriodCounts ==
    /\ \A h \in Hours :
          Cardinality({p \in DOMAIN RangeOfPeriod : h \in PeriodHours(p)}) = 1
    /\ \A p \in DOMAIN RangeOfPeriod :
          PeriodHours(p) = RangeOfPeriod[p] /\ PeriodHours(p) \subseteq Hours
    /\ (HistoryAsked /\ resp.ward \in DOMAIN historical_data /\ DaysAsked \in 1 .. 30) =>
           /\ "period_stats" \in DOMAIN resp.value
           /\ DOMAIN resp.value.period_stats = DOMAIN RangeOfPeriod
           /\ Len(resp.value.daily_data) = DaysAsked
           /\ \A p \in DOMAIN RangeOfPeriod :
                  LET data == resp.value.daily_data
                      stat == resp.value.period_stats[p]
                      g == LevelCount(data, RangeOfPeriod[p], "green")
                      y == LevelCount(data, RangeOfPeriod[p], "yellow")
                      r == LevelCount(data, RangeOfPeriod[p], "red")
                      total == Cardinality(RangeOfPeriod[p]) * Len(data)
                  IN  /\ g + y + r = total
                      /\ RoundedShare(stat.green_pct, g, total)
                      /\ RoundedShare(stat.yellow_pct, y, total)
                      /\ RoundedShare(stat.red_pct, r, total)
                      /\ {stat.green_pct, stat.yellow_pct, stat.red_pct} \subseteq 0 .. 1000
                      /\ stat.green_pct + stat.yellow_pct + stat.red_pct \in 999 .. 1001

\* statistics were returned for more than one day of a known ward, and one
\* period holds records of two levels
C24_Witness ==
    /\ HistoryAsked
    /\ resp.ward \in DOMAIN historical_data
    /\ DaysAsked \in 2 .. 30
    /\ "period_stats" \in DOMAIN resp.value
    /\ \E p \in DOMAIN RangeOfPeriod :
          /\ resp.value.period_stats[p].green_pct \in 1 .. 999
          /\ resp.value.period_stats[p].yellow_pct \in 1 .. 999

(***************************************************************************)
(* The store's wards and the predictor's                                   *)
(***************************************************************************)
\* the ward ids of the store's collection
StoreWardIds == {store[i].ward_id : i \in 1 .. Len(store)}

\* the answers the three methods give for a ward they do not have
NotFoundAnswers(ward_id) ==
    {[error |-> "No historical data for ward " \o ward_id],
     [error |-> "Ward " \o ward_id \o " not found"],
     [error |-> "No data available for ward " \o ward_id]}

\* the predictor has the ward in its collection and in its series
ScorerKnows(ward_id) ==
    ward_id \in KnownWardIds /\ ward_id \in DOMAIN historical_data

\* C25: every ward id of the collection /api/wards returns, and every ward
\* id /api/search returns, is known to the predictor; predict has a result
\* for every ward id of the store; get_historical_safety_data,
\* predict_future_risk and get_safety_tips, called directly or by their
\* handlers for a ward id of the store, do not answer that the ward is not
\* found.
C25_StoreKnownToScorer ==
    /\ resp.op = "/api/wards" =>
           \A i \in 1 .. Len(resp.value.features) :
               ScorerKnows(resp.value.features[i].ward_id)
    /\ (resp.op = "/api/search" /\ IsWard(resp.value)) => ScorerKnows(resp.value.ward_id)
    /\ PredictionsReturned =>
           \A w \in StoreWardIds : FindPrediction(resp.value, w) # 0
    /\ (resp.op \in {"get_historical_safety_data", "predict_future_risk",
                     "get_safety_tips", "/api/historical", "/api/future", "/api/tips"}
          /\ resp.ward \in StoreWardIds) =>
           resp.value \notin NotFoundAnswers(resp.ward)

\* C26: the store's collection has at least one ward, whether the boundary
\* file is absent, present with features or present without any; its ward
\* ids are pairwise distinct; /api/wards returns that collection.
C26_StoreNotEmpty ==
    /\ Len(store) >= 1
    /\ \A i \in 1 .. Len(store) :
          \A j \in 1 .. Len(store) : store[i].ward_id = store[j].ward_id => i = j
    /\ resp.op = "/api/wards" =>
           /\ resp.value.features = store
           /\ Len(resp.value.features) >= 1

====
